---- MODULE Spec2Model ----
(***************************************************************************)
(* State-machine model of src/main.rs: the World of the snake game (grid   *)
(* dimensions, direction, running flag, snake body), its step() method and *)
(* the main loop (key handling, frame-rate gated step, food check with the *)
(* re-roll loop, drawing).                                                 *)
(*                                                                         *)
(* A cell [row, col] of the source is the tuple <<row, col>>; the Vec      *)
(* snake_body is a sequence whose last element is the head.  Rust indices  *)
(* are 0-based, sequence indices 1-based: snake_body[i] of the source is   *)
(* snake_body[i + 1] here.  The random source is a nondeterministic choice *)
(* over the range it draws from.  All integers of the model are far below  *)
(* 2^31, where the casts of step() (usize -> i32, usize -> u32 -> i32 and  *)
(* i32 -> usize of a non-negative value) keep the value.                   *)
(***************************************************************************)
EXTENDS Integers, Sequences, FiniteSets, TLC

VARIABLES world, food_pos, previous_update, pc, op, grown, ticks_left

vars == <<world, food_pos, previous_update, pc, op, grown, ticks_left>>

(* world, food_pos and previous_update are the locals of main(); pc is the
   place the main loop is at ("event", "tick", "food", "reroll", "draw").
   History: op is the operation executed last, grown tells that the food check
   has pushed a cell which no running step() has moved since.  ticks_left caps
   the number of step() calls of a run (NoLimit: no cap). *)

(* Bounds of the model. *)
MaxRows == 2
MaxCols == 3
MaxLen == 4
MaxTicks == 2

(* main.rs:110, the grid main() builds: World::new(20, 20). *)
MainRows == 20
MainCols == 20

(* ticks_left value of a run whose number of step() calls is not capped. *)
NoLimit == 0 - 1

Directions == {"Up", "Left", "Down", "Right"}

(* Keys of a press event; "Other" is any other button, "None" an event that
   is not a press (press_args() is None). *)
Keys == {"Up", "Left", "Down", "Right", "Space", "Other", "None"}

Last(body) == body[Len(body)]

(* Contains as a membership test that looks at the head cell only. *)
ContainsHead(body, cell) == Len(body) > 0 /\ body[Len(body)] = cell

Contains(body, cell) == \E i \in 1..Len(body) : body[i] = cell

(* Vec::push *)
Push(body, cell) == Append(body, cell)

(* init pushing the three starting cells in the opposite order. *)
initReversed(w) ==
    [w EXCEPT !.movement_direction = "Left",
              !.snake_body = @ \o << <<0, 2>>, <<0, 1>>, <<0, 0>> >>]

(* World::init: sets the direction and pushes the three starting cells. *)
init(w) ==
    LET w1 == [w EXCEPT !.movement_direction = "Left"]
        w2 == [w1 EXCEPT !.snake_body = Push(@, <<0, 0>>)]
        w3 == [w2 EXCEPT !.snake_body = Push(@, <<0, 1>>)]
    IN  [w3 EXCEPT !.snake_body = Push(@, <<0, 2>>)]

(* World::new: the struct literal, then init(). *)
new(rows, cols) ==
    init([is_running |-> TRUE,
          row_count |-> rows,
          col_count |-> cols,
          movement_direction |-> "Up",
          snake_body |-> <<>>])

(* Rust's % on i32: the remainder truncates towards zero and takes the sign
   of the dividend (TLA+'s % is defined for a positive divisor only). *)
Rem(n, m) == IF n >= 0 THEN n % m ELSE 0 - ((0 - n) % m)

(* wrap without the sign correction of its else branch. *)
wrapNoFix(n, max) == Rem(n, max)

(* wrap by comparison, with > where >= is needed: n = max is left as it is. *)
wrapInclusive(n, max) == IF n < 0 THEN max - 1 ELSE IF n > max THEN 0 ELSE n

(* The closure wrap of step(). *)
wrap(n, max) ==
    IF n >= 0
    THEN Rem(n, max)
    ELSE Rem(max + Rem(n, max), max)

(* The shift loop run in descending order: every cell reads a cell that was
   overwritten already. *)
RECURSIVE ShiftLoopDown(_, _)
ShiftLoopDown(body, i) ==
    LET j == Len(body) - i
    IN  IF j < 1
        THEN body
        ELSE ShiftLoopDown([body EXCEPT ![j] = <<body[j + 1][1], body[j + 1][2]>>],
                           i + 1)

(* The shift loop of step(): for i in 0..len - 1, in ascending order, cell i
   takes the two coordinates of cell i + 1.  i is the 1-based index. *)
RECURSIVE ShiftLoop(_, _)
ShiftLoop(body, i) ==
    IF i > Len(body) - 1
    THEN body
    ELSE ShiftLoop([body EXCEPT ![i] = <<body[i + 1][1], body[i + 1][2]>>], i + 1)

(* The match of step() without the wrap. *)
MoveHeadNoWrap(cell, dir, rows, cols) ==
    CASE dir = "Up"    -> <<cell[1] - 1, cell[2]>>
      [] dir = "Left"  -> <<cell[1], cell[2] - 1>>
      [] dir = "Down"  -> <<cell[1] + 1, cell[2]>>
      [] dir = "Right" -> <<cell[1], cell[2] + 1>>

(* The match of step() with the arms of Left and Right exchanged. *)
MoveHeadMirrored(cell, dir, rows, cols) ==
    CASE dir = "Up"    -> <<wrap(cell[1] - 1, rows), cell[2]>>
      [] dir = "Left"  -> <<cell[1], wrap(cell[2] + 1, cols)>>
      [] dir = "Down"  -> <<wrap(cell[1] + 1, rows), cell[2]>>
      [] dir = "Right" -> <<cell[1], wrap(cell[2] - 1, cols)>>

(* The match on movement_direction of step(), applied to the last cell. *)
MoveHead(cell, dir, rows, cols) ==
    CASE dir = "Up"    -> <<wrap(cell[1] - 1, rows), cell[2]>>
      [] dir = "Left"  -> <<cell[1], wrap(cell[2] - 1, cols)>>
      [] dir = "Down"  -> <<wrap(cell[1] + 1, rows), cell[2]>>
      [] dir = "Right" -> <<cell[1], wrap(cell[2] + 1, cols)>>

(* step() that pushes the new head cell and shifts nothing. *)
stepPush(w) ==
    IF ~w.is_running
    THEN w
    ELSE [w EXCEPT !.snake_body =
             Append(@, MoveHead(@[Len(@)], w.movement_direction,
                                w.row_count, w.col_count))]

(* step() without the early return on is_running. *)
stepAlways(w) ==
    LET shifted == ShiftLoop(w.snake_body, 1)
        n == Len(shifted)
    IN  [w EXCEPT !.snake_body =
            [shifted EXCEPT ![n] =
                MoveHead(shifted[n], w.movement_direction,
                         w.row_count, w.col_count)]]

(* step() that drops the first cell (the tail) and appends nothing. *)
stepDropTail(w) ==
    IF ~w.is_running
    THEN w
    ELSE [w EXCEPT !.snake_body = SubSeq(@, 2, Len(@))]

(* World::step *)
step(w) ==
    IF ~w.is_running
    THEN w
    ELSE LET shifted == ShiftLoop(w.snake_body, 1)
             n == Len(shifted)
         IN  IF n = 0
             THEN w
             ELSE [w EXCEPT !.snake_body =
                      [shifted EXCEPT ![n] =
                          MoveHead(shifted[n], w.movement_direction,
                                   w.row_count, w.col_count)]]

(* gen_range that never draws the last value of its range. *)
GenRangeShort(n) == 0..(n - 2)

(* rng.gen_range(0..n) *)
GenRange(n) == 0..(n - 1)

(* State after main() has built the world and placed the first food cell
   (main.rs:110-116), for a world of the given dimensions. *)
Start(rows, cols, budget) ==
    /\ world = new(rows, cols)
    /\ food_pos \in GenRange(rows) \X GenRange(cols)
    /\ previous_update = "epoch"
    /\ pc = "event"
    /\ op = "new"
    /\ grown = FALSE
    /\ ticks_left = budget

Init ==
    \E rows \in 1..MaxRows, cols \in 1..MaxCols : Start(rows, cols, NoLimit)

InitMain == Start(MainRows, MainCols, MaxTicks)

(* Key handling that reads Left and Right as turns relative to the current
   direction. *)
OnKeyRelative(w, key) ==
    LET turnLeft == [d \in Directions |->
                        CASE d = "Up" -> "Left" [] d = "Left" -> "Down"
                          [] d = "Down" -> "Right" [] d = "Right" -> "Up"]
        turnRight == [d \in Directions |->
                        CASE d = "Up" -> "Right" [] d = "Right" -> "Down"
                          [] d = "Down" -> "Left" [] d = "Left" -> "Up"]
    IN  CASE key = "Left"  -> [w EXCEPT !.movement_direction = turnLeft[@]]
          [] key = "Right" -> [w EXCEPT !.movement_direction = turnRight[@]]
          [] key \in {"Up", "Down"} -> [w EXCEPT !.movement_direction = key]
          [] key = "Space" -> [w EXCEPT !.is_running = ~w.is_running]
          [] OTHER         -> w

(* Key handling that refuses the direction opposite to the current one. *)
OnKeyNoReverse(w, key) ==
    LET opposite == [d \in Directions |->
                        CASE d = "Up" -> "Down" [] d = "Down" -> "Up"
                          [] d = "Left" -> "Right" [] d = "Right" -> "Left"]
    IN  CASE key \in Directions /\ key # opposite[w.movement_direction]
                           -> [w EXCEPT !.movement_direction = key]
          [] key = "Space" -> [w EXCEPT !.is_running = ~w.is_running]
          [] OTHER         -> w

(* main.rs:118-138: the key handling of one loop iteration. *)
OnKey(w, key) ==
    CASE key \in Directions -> [w EXCEPT !.movement_direction = key]
      [] key = "Space"      -> [w EXCEPT !.is_running = ~w.is_running]
      [] OTHER              -> w

HandleEvent ==
    /\ pc = "event"
    /\ \E key \in Keys : world' = OnKey(world, key)
    /\ pc' = "tick"
    /\ op' = "key"
    /\ UNCHANGED <<food_pos, previous_update, grown, ticks_left>>

(* main.rs:141-144: more than MILLIS_PER_FRAME have passed since the previous
   update (always so on the first iteration, previous_update being the
   epoch): step() is called and the timer reset. *)
Tick ==
    /\ pc = "tick"
    /\ ticks_left # 0
    /\ world' = step(world)
    /\ previous_update' = "now"
    /\ ticks_left' = IF ticks_left = NoLimit THEN NoLimit ELSE ticks_left - 1
    /\ pc' = "food"
    /\ op' = "step"
    /\ grown' = (grown /\ ~world.is_running)
    /\ UNCHANGED food_pos

(* main.rs:141: the frame time has not passed yet, step() is not called. *)
SkipTick ==
    /\ pc = "tick"
    /\ previous_update = "now"
    /\ pc' = "food"
    /\ op' = "skip"
    /\ UNCHANGED <<world, food_pos, previous_update, grown, ticks_left>>

(* A loop iteration that goes on to draw without the food check. *)
NoFoodUnchecked ==
    /\ pc = "food"
    /\ pc' = "draw"
    /\ op' = "nofood"
    /\ UNCHANGED <<world, food_pos, previous_update, grown, ticks_left>>

(* A food check that draws a new food cell although the head is not on it. *)
NoFoodMoves ==
    /\ pc = "food"
    /\ Last(world.snake_body) # food_pos
    /\ food_pos' \in GenRange(world.row_count) \X GenRange(world.col_count)
    /\ pc' = "draw"
    /\ op' = "nofood"
    /\ UNCHANGED <<world, previous_update, grown, ticks_left>>

(* main.rs:154 with a false condition: the food check does nothing. *)
NoFood ==
    /\ pc = "food"
    /\ Last(world.snake_body) # food_pos
    /\ pc' = "draw"
    /\ op' = "nofood"
    /\ UNCHANGED <<world, food_pos, previous_update, grown, ticks_left>>

(* main.rs:154-164: the head is on the food: the head cell is pushed again and
   the food cell drawn anew. *)
Grow ==
    /\ pc = "food"
    /\ Last(world.snake_body) = food_pos
    /\ Len(world.snake_body) < MaxLen
    /\ world' = [world EXCEPT !.snake_body = Push(@, Last(@))]
    /\ food_pos' \in GenRange(world.row_count) \X GenRange(world.col_count)
    /\ pc' = "reroll"
    /\ op' = "grow"
    /\ grown' = TRUE
    /\ UNCHANGED <<previous_update, ticks_left>>

(* main.rs:168-171: one pass of the while loop, the food cell being on the
   snake: it is drawn again. *)
Reroll ==
    /\ pc = "reroll"
    /\ Contains(world.snake_body, food_pos)
    /\ food_pos' \in GenRange(world.row_count) \X GenRange(world.col_count)
    /\ op' = "reroll"
    /\ UNCHANGED <<world, previous_update, pc, grown, ticks_left>>

(* A re-roll loop that is left without looking at its condition. *)
PlacedUnchecked ==
    /\ pc = "reroll"
    /\ pc' = "draw"
    /\ op' = "placed"
    /\ UNCHANGED <<world, food_pos, previous_update, grown, ticks_left>>

(* main.rs:168: the loop condition is false, the food check is complete. *)
Placed ==
    /\ pc = "reroll"
    /\ ~Contains(world.snake_body, food_pos)
    /\ pc' = "draw"
    /\ op' = "placed"
    /\ UNCHANGED <<world, food_pos, previous_update, grown, ticks_left>>

(* main.rs:175-218: the frame is drawn from the world and the food cell, which
   it only reads; the loop then waits for the next event. *)
Draw ==
    /\ pc = "draw"
    /\ pc' = "event"
    /\ op' = "draw"
    /\ UNCHANGED <<world, food_pos, previous_update, grown, ticks_left>>

Next ==
    \/ HandleEvent
    \/ Tick
    \/ SkipTick
    \/ NoFood
    \/ Grow
    \/ Reroll
    \/ Placed
    \/ Draw

Spec == Init /\ [][Next]_vars

SpecMain == InitMain /\ [][Next]_vars

(* The worlds of Init with at most MaxTicks calls of step(). *)
InitShort ==
    \E rows \in 1..MaxRows, cols \in 1..MaxCols : Start(rows, cols, MaxTicks)

(* main.rs:169-170: the pass of the re-roll loop that draws the given cell. *)
RerollTo(cell) == Reroll /\ food_pos' = cell

(* The main loop with a while loop that goes on (it leaves when its condition
   is false, and a pass that can draw a cell over and over draws it in the
   end: the random source draws every cell of the grid eventually). *)
SpecReroll ==
    /\ InitShort
    /\ [][Next]_vars
    /\ WF_vars(Placed)
    /\ \A cell \in GenRange(MaxRows) \X GenRange(MaxCols) : WF_vars(RerollTo(cell))

(***************************************************************************)
(* Properties.                                                             *)
(***************************************************************************)

(* The step from pc = "tick" in which main() calls world.step(). *)
StepCalled == pc = "tick" /\ op' = "step"

Cells(body) == {body[i] : i \in 1..Len(body)}

InGrid(cell, w) ==
    /\ cell[1] \in 0..(w.row_count - 1)
    /\ cell[2] \in 0..(w.col_count - 1)

(* One cell further in direction dir on the torus of rows x cols cells. *)
TorusMove(cell, dir, rows, cols) ==
    CASE dir = "Up"    -> <<(cell[1] + rows - 1) % rows, cell[2]>>
      [] dir = "Down"  -> <<(cell[1] + 1) % rows, cell[2]>>
      [] dir = "Left"  -> <<cell[1], (cell[2] + cols - 1) % cols>>
      [] dir = "Right" -> <<cell[1], (cell[2] + 1) % cols>>

(* C1: a call of step() leaves the length of snake_body as it is, in every
   reachable state and for every direction; the length changes only in the
   food check that fires, and then by one cell. *)
C1_StepKeepsLength ==
    [][/\ StepCalled => Len(world'.snake_body) = Len(world.snake_body)
       /\ Len(world'.snake_body) # Len(world.snake_body)
            => /\ pc = "food"
               /\ op' = "grow"
               /\ Last(world.snake_body) = food_pos]_vars

(* C1 witness: a running step() has moved a snake that had grown before. *)
C1_Witness ==
    /\ op = "step"
    /\ world.is_running
    /\ Len(world.snake_body) = 4

(* C2: a running step() on a snake of n cells gives cell i the value cell i + 1
   had before, for every i but the last, and makes the last cell the old head
   moved one cell in the current direction, modulo the grid size, its other
   coordinate kept. *)
C2_ShiftAndMove ==
    [][StepCalled /\ world.is_running =>
        LET b == world.snake_body
            a == world'.snake_body
            n == Len(b)
        IN  /\ Len(a) = n
            /\ \A i \in 1..(n - 1) : a[i] = b[i + 1]
            /\ a[n] = TorusMove(b[n], world.movement_direction,
                                world.row_count, world.col_count)]_vars

(* C2 witness: a running step() to the Right has put the head one column to
   the right of the cell behind it, the old head, in the row of the old head,
   and the cell before that differs from both. *)
C2_Witness ==
    LET b == world.snake_body
        n == Len(b)
    IN  /\ op = "step"
        /\ world.is_running
        /\ world.movement_direction = "Right"
        /\ b[n] = <<b[n - 1][1], b[n - 1][2] + 1>>
        /\ b[n - 2] \notin {b[n - 1], b[n]}

(* C3: wraparound of a running step(): a head in row 0 moving Up ends in row
   row_count - 1, a head in row row_count - 1 moving Down ends in row 0, a
   head in column 0 moving Left ends in column col_count - 1, and a head in
   column col_count - 1 moving Right ends in column 0. *)
C3_Wraparound ==
    [][StepCalled /\ world.is_running =>
        LET h == Last(world.snake_body)
            g == Last(world'.snake_body)
            dir == world.movement_direction
            rows == world.row_count
            cols == world.col_count
        IN  /\ (dir = "Up" /\ h[1] = 0) => g[1] = rows - 1
            /\ (dir = "Down" /\ h[1] = rows - 1) => g[1] = 0
            /\ (dir = "Left" /\ h[2] = 0) => g[2] = cols - 1
            /\ (dir = "Right" /\ h[2] = cols - 1) => g[2] = 0]_vars

(* C3 witness: a running step() Up has taken the head from row 0 (the cell
   behind the head is the old head) to the last of two rows. *)
C3_Witness ==
    LET b == world.snake_body
        n == Len(b)
    IN  /\ op = "step"
        /\ world.is_running
        /\ world.movement_direction = "Up"
        /\ world.row_count = 2
        /\ b[n - 1][1] = 0
        /\ b[n][1] = 1

(* C4: for every direction, a step() that starts with the head inside the
   grid ends with the head inside the grid. *)
C4_HeadStaysInGrid ==
    [][StepCalled /\ InGrid(Last(world.snake_body), world)
         => InGrid(Last(world'.snake_body), world')]_vars

(* C4 witness: a running step() Left has taken a head from column 0 of a grid
   of three columns to column 2. *)
C4_Witness ==
    LET b == world.snake_body
        n == Len(b)
    IN  /\ op = "step"
        /\ world.is_running
        /\ world.movement_direction = "Left"
        /\ world.col_count = 3
        /\ InGrid(b[n - 1], world)
        /\ b[n - 1][2] = 0
        /\ b[n] = <<b[n - 1][1], 2>>

(* C5: step() called while is_running is false changes nothing of the world:
   snake body, direction, running flag and grid dimensions stay. *)
C5_PausedStepIsNoOp ==
    [][StepCalled /\ ~world.is_running =>
        /\ world'.snake_body = world.snake_body
        /\ world'.movement_direction = world.movement_direction
        /\ world'.is_running = world.is_running
        /\ world'.row_count = world.row_count
        /\ world'.col_count = world.col_count]_vars

(* C5 witness: step() has been called on a paused world whose snake had moved
   away from its starting cells before. *)
C5_Witness ==
    /\ op = "step"
    /\ ~world.is_running
    /\ world.snake_body[1] # <<0, 0>>

(* C6: the food check that fires (head on the food cell) makes the snake
   exactly one cell longer, the re-roll loop leaves the world alone, and when
   the check completes the food cell is none of the cells of the snake body,
   the cell just appended included. *)
C6_GrowAndRelocate ==
    [][/\ (pc = "food" /\ Last(world.snake_body) = food_pos)
            => /\ op' = "grow"
               /\ Len(world'.snake_body) = Len(world.snake_body) + 1
       /\ pc = "reroll" => world' = world
       /\ op' = "placed" => food_pos' \notin Cells(world'.snake_body)]_vars

(* C6 witness: on a grid of three columns the food check has fired and
   completed: the snake has four cells and the food cell is off the snake. *)
C6_Witness ==
    /\ op = "placed"
    /\ Len(world.snake_body) = 4
    /\ food_pos \notin Cells(world.snake_body)
    /\ world.col_count = 3

(* C7 as stated: on the 20 x 20 grid, step() on the running initial snake
   <<(0,0), (0,1), (0,2)>> with direction Left yields <<(0,1), (0,2), (0,19)>>. *)
C7_Original ==
    [][(/\ StepCalled
        /\ world.is_running
        /\ world.movement_direction = "Left"
        /\ world.snake_body = << <<0, 0>>, <<0, 1>>, <<0, 2>> >>)
         => world'.snake_body = << <<0, 1>>, <<0, 2>>, <<0, 19>> >>]_vars

(* C7 as amended: on the 20 x 20 grid, step() on the running initial snake
   <<(0,0), (0,1), (0,2)>> with direction Left yields <<(0,1), (0,2), (0,1)>>:
   the head is the last cell (0,2) and moves to column 1, without wrapping. *)
C7_FirstStepLeft ==
    [][(/\ StepCalled
        /\ world.is_running
        /\ world.movement_direction = "Left"
        /\ world.snake_body = << <<0, 0>>, <<0, 1>>, <<0, 2>> >>)
         => world'.snake_body = << <<0, 1>>, <<0, 2>>, <<0, 1>> >>]_vars

(* C7 witness: the first step() of the 20 x 20 world, direction Left, has run. *)
C7_Witness ==
    /\ op = "step"
    /\ world.row_count = 20
    /\ world.col_count = 20
    /\ world.is_running
    /\ world.movement_direction = "Left"
    /\ world.snake_body = << <<0, 1>>, <<0, 2>>, <<0, 1>> >>

(* C8 as stated: for every row_count > 0 and col_count > 0 given to World::new,
   every snake cell lies inside the grid, in the constructed world and in every
   state reached by steps, direction changes, pause toggles and food checks. *)
C8_Original ==
    \A i \in 1..Len(world.snake_body) : InGrid(world.snake_body[i], world)

(* C8 as amended: the same for every row_count > 0 and col_count >= 3, the
   grids that hold the three starting cells. *)
C8_InGridFromThreeColumns ==
    world.col_count >= 3
        => \A i \in 1..Len(world.snake_body) : InGrid(world.snake_body[i], world)

(* C8 witness: on a grid of 2 x 3 cells a grown snake has stepped Down into
   row 0 and lies inside the grid. *)
C8_Witness ==
    /\ world.row_count = 2
    /\ world.col_count = 3
    /\ op = "step"
    /\ world.is_running
    /\ world.movement_direction = "Down"
    /\ Len(world.snake_body) = 4
    /\ Last(world.snake_body)[1] = 0
    /\ \A i \in 1..Len(world.snake_body) : InGrid(world.snake_body[i], world)

(* C9 as stated: the first running step() after the food check has pushed the
   duplicate of the head keeps every cell the snake occupied before it, and
   the snake occupies the new head cell too. *)
C9_Original ==
    [][StepCalled /\ world.is_running /\ grown =>
        /\ Cells(world.snake_body) \subseteq Cells(world'.snake_body)
        /\ Last(world'.snake_body) \in Cells(world'.snake_body)]_vars

(* C10: World::new gives a world with direction Left, is_running true, the row
   and column counts it was given, and the snake <<(0,0), (0,1), (0,2)>>, whose
   last cell, the head, is (0,2). *)
C10_NewWorld ==
    op = "new" =>
        /\ world.movement_direction = "Left"
        /\ world.is_running = TRUE
        /\ world.snake_body = << <<0, 0>>, <<0, 1>>, <<0, 2>> >>
        /\ Len(world.snake_body) = 3
        /\ Last(world.snake_body) = <<0, 2>>
        /\ \A rows \in 1..MaxRows, cols \in 1..MaxCols :
              /\ new(rows, cols).row_count = rows
              /\ new(rows, cols).col_count = cols

(* C10 witness: the world World::new(2, 3) returned, before the first event. *)
C10_Witness ==
    /\ op = "new"
    /\ pc = "event"
    /\ world.row_count = 2
    /\ world.col_count = 3
    /\ DOMAIN world = {"is_running", "row_count", "col_count",
                       "movement_direction", "snake_body"}

(* C11: setting the direction is idempotent: in every state and for every
   direction d, the direction command d applied twice gives the world that
   applying it once gives. *)
C11_DirectionIdempotent ==
    \A d \in Directions : OnKey(OnKey(world, d), d) = OnKey(world, d)

(* C11 witness: the key Right has been handled in a world that went Left, and
   handling it again changes nothing. *)
C11_Witness ==
    /\ op = "key"
    /\ world.movement_direction = "Right"
    /\ world.snake_body = << <<0, 1>>, <<0, 2>>, <<0, 1>> >>
    /\ OnKey(world, "Right") = world

PairwiseDistinct(body) ==
    \A i, j \in 1..Len(body) : i # j => body[i] # body[j]

(* C12 as stated: the cells of the snake are pairwise distinct in every
   reachable state, but between a growth push and the next running step(). *)
C12_Original == ~grown => PairwiseDistinct(world.snake_body)

(* C12 as amended: the cells of the snake are pairwise distinct in the world
   World::new returns, and an operation makes two of them equal only if it is
   the growth push of the food check or a running step() whose new head cell
   is a cell the shifted body still holds. *)
C12_DistinctLostOnlyBy ==
    /\ PairwiseDistinct(world.snake_body)
    /\ [][(PairwiseDistinct(world.snake_body)
            /\ ~PairwiseDistinct(world'.snake_body))
          => \/ pc = "food" /\ op' = "grow"
             \/ /\ StepCalled
                /\ world.is_running
                /\ \E i \in 2..Len(world.snake_body) :
                      world.snake_body[i] = Last(world'.snake_body)]_vars

(* C12 witness: the first step() Left of the 20 x 20 world has put the head
   on the cell the snake's first cell holds, with no growth before. *)
C12_Witness ==
    /\ op = "step"
    /\ ~grown
    /\ world.col_count = 20
    /\ world.snake_body = << <<0, 1>>, <<0, 2>>, <<0, 1>> >>
    /\ ~PairwiseDistinct(world.snake_body)

(* The cells of the grid of world w. *)
GridCells(w) == (0..(w.row_count - 1)) \X (0..(w.col_count - 1))

HasFreeCell == GridCells(world) \ Cells(world.snake_body) # {}

(* C13: with a random source that draws every cell eventually, the re-roll
   loop of a food check that has fired is left (the frame gets drawn) if some
   grid cell is not in the grown snake body; if the body covers every grid
   cell, the loop is never left and nothing but the food cell changes any
   more. *)
C13_RerollEndsIffFreeCell ==
    /\ (pc = "reroll" /\ HasFreeCell) ~> (pc = "draw")
    /\ [][(pc = "reroll" /\ ~HasFreeCell)
            => (pc' = "reroll" /\ world' = world)]_vars

(* C13 witness: on the grid of 1 x 3 cells the snake, grown while paused,
   covers every cell and the loop has drawn the food cell once more. *)
C13_Witness ==
    /\ op = "reroll"
    /\ pc = "reroll"
    /\ world.row_count = 1
    /\ world.col_count = 3
    /\ world.snake_body = << <<0, 0>>, <<0, 1>>, <<0, 2>>, <<0, 2>> >>
    /\ ~HasFreeCell

(* C13 witness of the other case is every state of C6_Witness: the loop was
   left with a free cell on the grid. *)

(* C14: the food check runs after the tick gating of its iteration (step()
   called or not) and before the draw; the frame is drawn only after a check
   that did not fire or after the growth and the relocation of the food, and
   never with the head on the food cell: a head that step() has moved onto the
   food cell has made the snake grow and the food move before the draw of
   that iteration. *)
C14_CheckAfterStepBeforeDraw ==
    /\ pc = "food" => op \in {"step", "skip"}
    /\ pc = "draw" => /\ op \in {"nofood", "placed"}
                      /\ Last(world.snake_body) # food_pos
    /\ (pc = "reroll" \/ (pc = "draw" /\ op = "placed")) => grown
    /\ op = "grow" => Len(world.snake_body) > 3

(* C14 witness: the step() of this iteration has moved the head of the moving
   snake onto the food cell; the check is next. *)
C14_Witness ==
    LET b == world.snake_body
        n == Len(b)
    IN  /\ op = "step"
        /\ pc = "food"
        /\ world.is_running
        /\ b[n] = food_pos
        /\ b[n] # b[n - 1]
        /\ n < MaxLen

(* C15: a food check that finds the head off the food cell changes nothing:
   snake body, food cell, direction and running flag stay. *)
C15_NoFoodNoChange ==
    [][(pc = "food" /\ Last(world.snake_body) # food_pos)
         => /\ world' = world
            /\ food_pos' = food_pos
            /\ pc' = "draw"]_vars

(* C15 witness: the check has run on a grown snake with the head off the food
   cell. *)
C15_Witness ==
    /\ op = "nofood"
    /\ Len(world.snake_body) = 4
    /\ Last(world.snake_body) # food_pos

(* C16: a direction command is taken in every state, the direction opposite
   to the current one and a paused world included: the world after it has the
   commanded direction and the snake body, running flag and grid it had, and
   handling a key leaves the food cell alone. *)
C16_DirectionAlwaysSet ==
    [][pc = "event" =>
        /\ food_pos' = food_pos
        /\ world'.snake_body = world.snake_body
        /\ pc' = "tick"
        /\ \A d \in Directions :
              /\ OnKey(world, d).movement_direction = d
              /\ OnKey(world, d).snake_body = world.snake_body
              /\ OnKey(world, d).is_running = world.is_running
              /\ OnKey(world, d).row_count = world.row_count
              /\ OnKey(world, d).col_count = world.col_count]_vars

(* C16 witness: a paused world that went Left and has not moved has handled
   the key Right, the opposite direction. *)
C16_Witness ==
    /\ op = "key"
    /\ ~world.is_running
    /\ world.movement_direction = "Right"
    /\ world.snake_body = << <<0, 0>>, <<0, 1>>, <<0, 2>> >>

(* C17: in every reachable state the snake has at least three cells and the
   grid at least one row and one column, and no operation makes the snake
   shorter: the range 0..len - 1 of step() never underflows and the % of wrap
   never divides by zero. *)
C17_AtLeastThreeCells ==
    /\ [](/\ Len(world.snake_body) >= 3
          /\ world.row_count > 0
          /\ world.col_count > 0)
    /\ [][Len(world'.snake_body) >= Len(world.snake_body)]_vars

(* C17 witness: step() has run on the smallest grid, 1 x 1, with the snake of
   three cells. *)
C17_Witness ==
    /\ op = "step"
    /\ world.is_running
    /\ world.row_count = 1
    /\ world.col_count = 1
    /\ Len(world.snake_body) = 3

(* C18: once the food has been relocated (the snake has more than its three
   starting cells and the re-roll loop has been left), the food cell is none
   of the cells of the snake body at the end of every loop iteration, that
   is whenever the loop draws or waits for the next event. *)
C18_FoodOffSnakeAtIterationEnd ==
    (Len(world.snake_body) > 3 /\ pc \in {"draw", "event"})
        => food_pos \notin Cells(world.snake_body)

(* C18 witness: after a relocation the snake has moved on and a later
   iteration has ended with the food cell off the snake. *)
C18_Witness ==
    /\ pc = "event"
    /\ op = "draw"
    /\ Len(world.snake_body) = 4
    /\ ~grown
    /\ food_pos \notin Cells(world.snake_body)

(* C19 as stated: no step taken while is_running is false changes the snake
   body or the food cell. *)
C19_Original ==
    [][~world.is_running =>
        /\ world'.snake_body = world.snake_body
        /\ food_pos' = food_pos]_vars

(* C19 as amended: a step taken while is_running is false changes the snake
   body or the food cell only in the food check of the first loop iteration,
   when that iteration was paused by its key event and the initial food cell
   is the head cell (0,2): the check then pushes a cell onto the initial snake
   and its loop draws the food cell anew. *)
C19_PausedChangesOnlyInFirstCheck ==
    [][(/\ ~world.is_running
        /\ \/ world'.snake_body # world.snake_body
           \/ food_pos' # food_pos)
         => \/ /\ pc = "food"
               /\ op = "step"
               /\ world.snake_body = << <<0, 0>>, <<0, 1>>, <<0, 2>> >>
               /\ food_pos = <<0, 2>>
               /\ world'.snake_body = Append(world.snake_body, <<0, 2>>)
            \/ /\ pc = "reroll"
               /\ world.snake_body = << <<0, 0>>, <<0, 1>>, <<0, 2>>, <<0, 2>> >>
               /\ world' = world]_vars

(* C19 witness: the snake has moved, the world was paused then, and a paused
   iteration with a call of step() has ended with the snake where it was. *)
C19_Witness ==
    /\ pc = "event"
    /\ op = "draw"
    /\ ~world.is_running
    /\ ticks_left = 0
    /\ world.snake_body = << <<0, 1>>, <<0, 2>>, <<0, 1>> >>

(* C20: after the food check has fired, it does not fire again before a
   running step(): at every check that runs while the cell pushed last has
   not been moved by a running step(), the head is off the food cell. *)
C20_NoSecondGrowthBeforeStep ==
    /\ (grown /\ pc = "food") => Last(world.snake_body) # food_pos
    /\ (grown /\ pc \in {"draw", "event", "tick"})
          => food_pos \notin Cells(world.snake_body)

(* C20 witness: after a growth an iteration without a call of step() has run
   its food check, which did not fire. *)
C20_Witness ==
    /\ grown
    /\ op = "nofood"
    /\ pc = "draw"
    /\ previous_update = "now"
    /\ world.is_running
    /\ Len(world.snake_body) = 4

====
